---- MODULE Spec2Model ----
(***************************************************************************)
(* LlamaEdge-RAG API server (src/src/main.rs): process startup (main) and  *)
(* the per-request entry point (handle_request), followed by the           *)
(* retrieval-augmented chat pipeline that the /v1 backend runs.            *)
(*                                                                         *)
(* Strings that the code takes apart (the Authorization header, the        *)
(* request path) are sequences of atoms; Option<T> is a sequence of        *)
(* length 0 (None) or 1 (Some).                                            *)
(***************************************************************************)
EXTENDS Integers, Sequences, FiniteSets, TLC

VARIABLES
    env,                \* process environment: [API_KEY: Option<String>]
    cli,                \* the command line as clap parsed it (struct Cli)
    pc,                 \* position of main()
    LLAMA_API_KEY,      \* OnceCell<String>
    GLOBAL_RAG_PROMPT,  \* OnceCell<String>
    CONTEXT_WINDOW,     \* OnceCell<u64>
    KW_SEARCH_CONFIG,   \* OnceCell<KeywordSearchConfig>
    SERVER_INFO,        \* OnceCell<RwLock<ServerInfo>>
    qdrant_config_vec,  \* local of main: Vec<QdrantConfig>
    policy,             \* local of main: the effective MergeRagContextPolicy
    req,                \* the request handle_request is working on
    rpc,                \* position of handle_request
    root_path,          \* local of handle_request
    logged,             \* the request was access-logged (method, endpoint)
    handler,            \* which arm of the routing match ran
    response,           \* what handle_request returned
    st,                 \* state of the request's orchestration
    failure,            \* the kind of a Failed orchestration
    query,              \* the user turns selected for retrieval
    results,            \* per retrieval source: "pending", "failed", "timeout" or its chunks
    merged,             \* the merged passages
    messages,           \* the request's message sequence, as rewritten so far
    forwarded,          \* the messages handed to the inference engine
    calls               \* external calls issued for the request

cells == <<LLAMA_API_KEY, GLOBAL_RAG_PROMPT, CONTEXT_WINDOW, KW_SEARCH_CONFIG, SERVER_INFO>>
mainVars == <<env, cli, pc, cells, qdrant_config_vec, policy>>
routeVars == <<req, rpc, root_path, logged, handler, response>>
ragVars == <<st, failure, query, results, merged, messages, forwarded, calls>>
reqVars == <<routeVars, ragVars>>
vars == <<mainVars, reqVars>>

(***************************************************************************)
(* Bounds                                                                  *)
(***************************************************************************)
MaxList == 3     \* longest comma-separated argument list
MaxColl == 3     \* most collection names on the command line
MaxSegs == 2     \* most segments of a request path
MaxHdrLen == 3   \* most atoms of an Authorization header value
MaxHits == 2     \* most chunks one retrieval source returns

None == <<>>
Some(x) == <<x>>
Min(a, b) == IF a < b THEN a ELSE b

(***************************************************************************)
(* The command line                                                        *)
(***************************************************************************)
Policies == {"SystemMessage", "LastUserMessage"}
Templates == {"chatml", "embedding"}

\* PromptTemplateType::has_system_prompt of the chat_prompts crate
has_system_prompt(t) == t = "chatml"

ListOf(n, x) == [i \in 1..n |-> x]
Iota(n) == [i \in 1..n |-> i]
CollectionNames(n) == [i \in 1..n |-> <<"col", i>>]

DefaultCli ==
    [ model_name |-> <<"chat", "embed">>,
      model_alias |-> <<"default", "embedding">>,
      ctx_size |-> <<4096, 384>>,
      batch_size |-> <<512, 512>>,
      ubatch_size |-> <<512, 512>>,
      prompt_template |-> <<"chatml", "embedding">>,
      rag_prompt |-> None,
      policy |-> "SystemMessage",
      qdrant_url |-> "http://127.0.0.1:6333",
      qdrant_collection_name |-> <<<<"col", 1>>>>,
      qdrant_limit |-> <<5>>,
      qdrant_score_threshold |-> <<2>>,
      context_window |-> 1,
      kw_search_url |-> None ]

\* utils::is_valid_url
is_valid_url(u) == u # "not a url"

\* Command lines that differ from the default in the lengths of the model lists.
ListArgs ==
    { [DefaultCli EXCEPT !.model_name = ListOf(a, "m"),
                         !.model_alias = ListOf(b, "a"),
                         !.ctx_size = ListOf(c, 384),
                         !.batch_size = ListOf(d, 512),
                         !.ubatch_size = ListOf(e, 512),
                         !.prompt_template = <<t>> \o ListOf(f - 1, "embedding")] :
        a \in 1..MaxList, b \in 1..MaxList, c \in 1..MaxList, d \in 1..MaxList,
        e \in 1..MaxList, f \in 1..MaxList, t \in Templates }

\* Command lines that differ from the default in the collection arguments.
QdrantArgs ==
    { [DefaultCli EXCEPT !.qdrant_url = u,
                         !.qdrant_collection_name = CollectionNames(c),
                         !.qdrant_limit = Iota(l),
                         !.qdrant_score_threshold = Iota(t)] :
        u \in {"http://127.0.0.1:6333", "not a url"},
        c \in 1..MaxColl, l \in 1..MaxList, t \in 1..MaxList }

\* Command lines that differ from the default in the optional arguments.
OptionArgs ==
    { [DefaultCli EXCEPT !.rag_prompt = p,
                         !.policy = m,
                         !.prompt_template = <<t, "embedding">>,
                         !.context_window = w,
                         !.kw_search_url = k] :
        p \in {None, Some("prompt")}, m \in Policies, t \in Templates,
        w \in 0..1, k \in {None, Some("http://kw")} }

ApiKeys == {None, Some(<<"k">>), Some(<<>>)}

NoCalls == [embed |-> 0, search |-> {}, complete |-> 0]

(***************************************************************************)
(* main                                                                    *)
(***************************************************************************)
InitMain(args, keys) ==
    /\ cli \in args
    /\ env \in {[API_KEY |-> k] : k \in keys}
    /\ pc = "api_key"
    /\ LLAMA_API_KEY = None
    /\ GLOBAL_RAG_PROMPT = None
    /\ CONTEXT_WINDOW = None
    /\ KW_SEARCH_CONFIG = None
    /\ SERVER_INFO = None
    /\ qdrant_config_vec = <<>>
    /\ policy = "unset"

InitRequest ==
    /\ req = None
    /\ rpc = "idle"
    /\ root_path = <<>>
    /\ logged = FALSE
    /\ handler = "none"
    /\ response = None
    /\ st = "Idle"
    /\ failure = "none"
    /\ query = <<>>
    /\ results = <<>>
    /\ merged = <<>>
    /\ messages = <<>>
    /\ forwarded = None
    /\ calls = NoCalls

\* main.rs 175-184: the API key comes from the environment, before the command line
SetApiKey ==
    /\ pc = "api_key"
    /\ IF env.API_KEY # None
         THEN IF LLAMA_API_KEY = None
                THEN LLAMA_API_KEY' = env.API_KEY /\ pc' = "args"
                ELSE pc' = "OperationError" /\ UNCHANGED LLAMA_API_KEY
         ELSE pc' = "args" /\ UNCHANGED LLAMA_API_KEY
    /\ UNCHANGED <<env, cli, GLOBAL_RAG_PROMPT, CONTEXT_WINDOW, KW_SEARCH_CONFIG,
                   SERVER_INFO, qdrant_config_vec, policy, reqVars>>

\* ModelListsOk without the check of the batch sizes
ModelListsOk_NoBatchCheck ==
    /\ Len(cli.model_name) = 2
    /\ Len(cli.model_alias) = 2
    /\ Len(cli.ctx_size) = 2
    /\ Len(cli.ubatch_size) = 2
    /\ Len(cli.prompt_template) = 2

\* main.rs 194-264: the length checks, in the order of the code
ModelListsOk ==
    /\ Len(cli.model_name) = 2
    /\ Len(cli.model_alias) = 2
    /\ Len(cli.ctx_size) = 2
    /\ Len(cli.batch_size) = 2
    /\ Len(cli.ubatch_size) = 2
    /\ Len(cli.prompt_template) = 2

CheckModelLists ==
    /\ pc = "args"
    /\ pc' = IF ModelListsOk THEN "rag_prompt" ELSE "ArgumentError"
    /\ UNCHANGED <<env, cli, cells, qdrant_config_vec, policy, reqVars>>

\* main.rs 303-310
SetRagPrompt ==
    /\ pc = "rag_prompt"
    /\ IF cli.rag_prompt # None
         THEN IF GLOBAL_RAG_PROMPT = None
                THEN GLOBAL_RAG_PROMPT' = cli.rag_prompt /\ pc' = "qdrant_url"
                ELSE pc' = "OperationError" /\ UNCHANGED GLOBAL_RAG_PROMPT
         ELSE pc' = "qdrant_url" /\ UNCHANGED GLOBAL_RAG_PROMPT
    /\ UNCHANGED <<env, cli, LLAMA_API_KEY, CONTEXT_WINDOW, KW_SEARCH_CONFIG,
                   SERVER_INFO, qdrant_config_vec, policy, reqVars>>

\* main.rs 312-326
CheckQdrantUrl ==
    /\ pc = "qdrant_url"
    /\ pc' = IF is_valid_url(cli.qdrant_url) THEN "collections" ELSE "ArgumentError"
    /\ UNCHANGED <<env, cli, cells, qdrant_config_vec, policy, reqVars>>

\* main.rs 328-335: the check of the limit list
LimitCountRejected(c, l, t) == c # l /\ l > 1 /\ t > 1

\* main.rs 337-344: the check of the threshold list
ThresholdCountRejected(c, t) == c # t /\ t > 1 /\ t > 1

CollectionCountsOk ==
    LET c == Len(cli.qdrant_collection_name)
        l == Len(cli.qdrant_limit)
        t == Len(cli.qdrant_score_threshold)
    IN  ~LimitCountRejected(c, l, t) /\ ~ThresholdCountRejected(c, t)

CheckCollections ==
    /\ pc = "collections"
    /\ pc' = IF CollectionCountsOk THEN "qdrant_config" ELSE "ArgumentError"
    /\ UNCHANGED <<env, cli, cells, qdrant_config_vec, policy, reqVars>>

\* LimitIndex that always takes the first limit
LimitIndex_AlwaysFirst(idx) == 1

\* main.rs 376-380: the limit of the idx-th collection (idx counts from 1 here)
LimitIndex(idx) == IF Len(cli.qdrant_limit) = 1 THEN 1 ELSE idx

\* ThresholdIndex that always takes the first threshold
ThresholdIndex_AlwaysFirst(idx) == 1

\* main.rs 382-386
ThresholdIndex(idx) == IF Len(cli.qdrant_score_threshold) = 1 THEN 1 ELSE idx

\* Vec indexing panics past the end
IndicesInRange ==
    \A idx \in 1..Len(cli.qdrant_collection_name) :
        /\ LimitIndex(idx) <= Len(cli.qdrant_limit)
        /\ ThresholdIndex(idx) <= Len(cli.qdrant_score_threshold)

\* main.rs 388-393
QdrantConfig(idx) ==
    [ url |-> cli.qdrant_url,
      collection_name |-> cli.qdrant_collection_name[idx],
      limit |-> cli.qdrant_limit[LimitIndex(idx)],
      score_threshold |-> cli.qdrant_score_threshold[ThresholdIndex(idx)] ]

\* main.rs 373-396
BuildQdrantConfig ==
    /\ pc = "qdrant_config"
    /\ IF IndicesInRange
         THEN /\ qdrant_config_vec' =
                    [idx \in 1..Len(cli.qdrant_collection_name) |-> QdrantConfig(idx)]
              /\ pc' = "context_window"
         ELSE /\ pc' = "panic"
              /\ UNCHANGED qdrant_config_vec
    /\ UNCHANGED <<env, cli, cells, policy, reqVars>>

\* StoredContextWindow that never stores less than 1
StoredContextWindow_AtLeastOne == IF cli.context_window = 0 THEN 1 ELSE cli.context_window

\* main.rs 403-405: the value stored in CONTEXT_WINDOW
StoredContextWindow == cli.context_window

SetContextWindow ==
    /\ pc = "context_window"
    /\ IF CONTEXT_WINDOW = None
         THEN CONTEXT_WINDOW' = Some(StoredContextWindow) /\ pc' = "policy"
         ELSE pc' = "OperationError" /\ UNCHANGED CONTEXT_WINDOW
    /\ UNCHANGED <<env, cli, LLAMA_API_KEY, GLOBAL_RAG_PROMPT, KW_SEARCH_CONFIG,
                   SERVER_INFO, qdrant_config_vec, policy, reqVars>>

\* EffectivePolicy without the downgrade
EffectivePolicy_NoDowngrade == cli.policy

\* main.rs 410-416
EffectivePolicy ==
    IF cli.policy = "SystemMessage" /\ ~has_system_prompt(cli.prompt_template[1])
      THEN "LastUserMessage"
      ELSE cli.policy

DecidePolicy ==
    /\ pc = "policy"
    /\ policy' = EffectivePolicy
    /\ pc' = "kw_search"
    /\ UNCHANGED <<env, cli, cells, qdrant_config_vec, reqVars>>

\* StoredKwSearchConfig that forgets the configured URL
StoredKwSearchConfig_Dropped == None

\* main.rs 419-424: the keyword-search configuration that is stored
StoredKwSearchConfig ==
    IF cli.kw_search_url # None THEN Some([url |-> cli.kw_search_url[1]]) ELSE None

SetKwSearchConfig ==
    /\ pc = "kw_search"
    /\ IF StoredKwSearchConfig # None /\ KW_SEARCH_CONFIG # None
         THEN pc' = "panic" /\ UNCHANGED KW_SEARCH_CONFIG
         ELSE /\ pc' = "core"
              /\ KW_SEARCH_CONFIG' =
                    IF StoredKwSearchConfig # None THEN StoredKwSearchConfig
                    ELSE KW_SEARCH_CONFIG
    /\ UNCHANGED <<env, cli, LLAMA_API_KEY, GLOBAL_RAG_PROMPT, CONTEXT_WINDOW,
                   SERVER_INFO, qdrant_config_vec, policy, reqVars>>

\* main.rs 429-542: the model metadata, init_ggml_rag_context and get_plugin_info
InitCoreContext ==
    /\ pc = "core"
    /\ \E ok \in BOOLEAN : pc' = IF ok THEN "server_info" ELSE "OperationError"
    /\ UNCHANGED <<env, cli, cells, qdrant_config_vec, policy, reqVars>>

\* main.rs 516-520 and 560-571
ServerInfo ==
    [ rag_config |->
        [ chat_model |-> [name |-> cli.model_name[1], ctx_size |-> cli.ctx_size[1],
                          prompt_template |-> cli.prompt_template[1]],
          embedding_model |-> [name |-> cli.model_name[2], ctx_size |-> cli.ctx_size[2],
                               prompt_template |-> cli.prompt_template[2]],
          policy |-> policy ],
      qdrant_config |-> qdrant_config_vec ]

\* SetServerInfo that goes on to bind without publishing ServerInfo
SetServerInfo_Skipped ==
    /\ pc = "server_info"
    /\ pc' = "bind"
    /\ UNCHANGED <<env, cli, cells, qdrant_config_vec, policy, reqVars>>

\* main.rs 572-574
SetServerInfo ==
    /\ pc = "server_info"
    /\ IF SERVER_INFO = None
         THEN SERVER_INFO' = Some(ServerInfo) /\ pc' = "bind"
         ELSE pc' = "OperationError" /\ UNCHANGED SERVER_INFO
    /\ UNCHANGED <<env, cli, LLAMA_API_KEY, GLOBAL_RAG_PROMPT, CONTEXT_WINDOW,
                   KW_SEARCH_CONFIG, qdrant_config_vec, policy, reqVars>>

\* main.rs 590-595: TcpListener::bind(addr).await.unwrap()
BindListener ==
    /\ pc = "bind"
    /\ \E ok \in BOOLEAN : pc' = IF ok THEN "serving" ELSE "panic"
    /\ UNCHANGED <<env, cli, cells, qdrant_config_vec, policy, reqVars>>

Startup ==
    \/ SetApiKey
    \/ CheckModelLists
    \/ SetRagPrompt
    \/ CheckQdrantUrl
    \/ CheckCollections
    \/ BuildQdrantConfig
    \/ SetContextWindow
    \/ DecidePolicy
    \/ SetKwSearchConfig
    \/ InitCoreContext
    \/ SetServerInfo
    \/ BindListener

(***************************************************************************)
(* Requests                                                                *)
(***************************************************************************)
Segs == {"", ".", "v1", "echo", "chat"}
Paths == UNION {[1..n -> Segs] : n \in 1..MaxSegs}

\* "obs" is a byte outside visible ASCII (HeaderValue allows 0x80..0xFF)
HeaderAtoms == {"Bearer", "k", "x", " ", "obs"}
HeaderValues == UNION {[1..n -> HeaderAtoms] : n \in 0..MaxHdrLen}

ContentLengths == {None, Some("12"), Some("abc"), Some("obs")}

UserMsg(i) == [role |-> "user", content |-> <<<<"q", i>>>>]
SystemMsg == [role |-> "system", content |-> <<<<"sys", 0>>>>]
AssistantMsg == [role |-> "assistant", content |-> <<<<"answer", 0>>>>]
Conversations ==
    { <<UserMsg(1)>>,
      <<SystemMsg, UserMsg(1)>>,
      <<UserMsg(1), AssistantMsg, UserMsg(2)>>,
      <<SystemMsg, AssistantMsg>> }

Request(m, p, a, c, b) ==
    [method |-> m, path |-> p, authorization |-> a, content_length |-> c, body |-> b]

ChatPath == <<"v1", "chat">>

(***************************************************************************)
(* handle_request                                                          *)
(***************************************************************************)
\* std::path::Components after the root: empty and "." segments are skipped
RECURSIVE Components(_)
Components(path) ==
    IF path = <<>> THEN <<>>
    ELSE IF Head(path) \in {"", "."} THEN Components(Tail(path))
    ELSE <<Head(path)>> \o Components(Tail(path))

\* main.rs 608-613: "/" followed by the first component, if there is one
RootPath(path) ==
    LET comps == Components(path)
    IN  <<"/">> \o (IF comps = <<>> THEN <<>> ELSE <<Head(comps)>>)

\* HeaderValue::to_str: only visible ASCII
ToStrOk(h) == \A i \in 1..Len(h) : h[i] # "obs"

\* str::split(" ")
RECURSIVE Split(_)
Split(s) ==
    IF \A i \in 1..Len(s) : s[i] # " " THEN <<s>>
    ELSE LET i == CHOOSE j \in 1..Len(s) : s[j] = " " /\ \A k \in 1..(j - 1) : s[k] # " "
         IN  <<SubSeq(s, 1, i - 1)>> \o Split(SubSeq(s, i + 1, Len(s)))

\* main.rs 626: auth_header.split(" ").nth(1).unwrap_or_default()
ApiKeyOf(h) == LET f == Split(h) IN IF Len(f) >= 2 THEN f[2] ELSE <<>>

\* KeyAccepted that accepts every token
KeyAccepted_AcceptsAll(api_key) == TRUE

\* main.rs 629-634: the comparison with the stored key
KeyAccepted(api_key) == LLAMA_API_KEY = None \/ api_key = LLAMA_API_KEY[1]

\* AuthorizationPassed that rejects a request without a token
AuthorizationPassed_RequiresHeader(r) ==
    /\ r.authorization # None
    /\ r.authorization[1] # <<>>
    /\ ToStrOk(r.authorization[1])
    /\ KeyAccepted(ApiKeyOf(r.authorization[1]))

\* main.rs 615-636: TRUE when the request gets past the authorization block
AuthorizationPassed(r) ==
    IF r.authorization = None THEN TRUE
    ELSE LET h == r.authorization[1]
         IN  IF h = <<>> THEN TRUE
             ELSE IF ~ToStrOk(h) THEN FALSE
             ELSE KeyAccepted(ApiKeyOf(h))

\* u64::from_str
ParsesAsU64(v) == v = "12"

\* main.rs 643-647: content_length.to_str().unwrap().parse().unwrap()
LoggingPanics(r) ==
    /\ r.method = "POST"
    /\ r.content_length # None
    /\ (r.content_length[1] = "obs" \/ ~ParsesAsU64(r.content_length[1]))

\* Route without the "/echo" arm
Route_NoEcho(root) == IF root = <<"/", "v1">> THEN "backend" ELSE "static"

\* main.rs 657-661
Route(root) ==
    IF root = <<"/", "echo">> THEN "echo"
    ELSE IF root = <<"/", "v1">> THEN "backend"
    ELSE "static"

\* main.rs 695-718: static_response; found says whether the file could be read
StaticResponse(found) ==
    IF found THEN [status |-> 200, body |-> "file"] ELSE [status |-> 404, body |-> "404.html"]

\* error::unauthorized
Unauthorized == [status |-> 401, body |-> "unauthorized"]

\* main.rs 603-661: handle_request up to the response of the echo and static arms,
\* or up to the await of the backend
HandleRequest(r, found) ==
    /\ pc = "serving"
    /\ rpc = "idle"
    /\ req' = Some(r)
    /\ root_path' = RootPath(r.path)
    /\ IF ~AuthorizationPassed(r)
         THEN /\ response' = Some(Unauthorized)
              /\ rpc' = "done"
              /\ logged' = FALSE
              /\ handler' = "none"
         ELSE IF LoggingPanics(r)
         THEN /\ response' = None
              /\ rpc' = "panic"
              /\ logged' = FALSE
              /\ handler' = "none"
         ELSE /\ logged' = TRUE
              /\ handler' = Route(RootPath(r.path))
              /\ rpc' = IF Route(RootPath(r.path)) = "backend" THEN "backend" ELSE "done"
              /\ response' =
                    IF Route(RootPath(r.path)) = "echo"
                      THEN Some([status |-> 200, body |-> "echo test"])
                    ELSE IF Route(RootPath(r.path)) = "static"
                      THEN Some(StaticResponse(found))
                    ELSE None
    /\ UNCHANGED <<mainVars, ragVars>>

(***************************************************************************)
(* The /v1 backend: the chat-completion orchestration (spec 4.2-4.4).      *)
(* Its code is in mod backend, which is not among the source files.        *)
(***************************************************************************)
IsChatCompletion(r) == r.path = ChatPath /\ r.method = "POST" /\ r.body # None

\* the keyword service is source 0, the i-th configured collection is source i
KeywordSource == 0
Sources ==
    (1..Len(SERVER_INFO[1].qdrant_config))
        \cup (IF KW_SEARCH_CONFIG # None THEN {KeywordSource} ELSE {})

Pending == [status |-> "pending", chunks |-> {}]

\* backend: the request enters the orchestrator
ReceiveChat ==
    /\ rpc = "backend"
    /\ st = "Idle"
    /\ IsChatCompletion(req[1])
    /\ st' = "Received"
    /\ messages' = req[1].body[1]
    /\ UNCHANGED <<mainVars, routeVars, failure, query, results, merged, forwarded, calls>>

\* the contents of the last n user messages
RECURSIVE LastUserTurns(_, _)
LastUserTurns(msgs, n) ==
    IF n = 0 \/ msgs = <<>> THEN <<>>
    ELSE LET last == msgs[Len(msgs)]
             rest == SubSeq(msgs, 1, Len(msgs) - 1)
         IN  IF last.role = "user"
               THEN LastUserTurns(rest, n - 1) \o <<last.content>>
               ELSE LastUserTurns(rest, n)

\* Received -> QueryExtracted, or straight to the inference call when the context
\* window is 0
ExtractQuery ==
    /\ st = "Received"
    /\ IF CONTEXT_WINDOW[1] = 0
         THEN /\ st' = "Dispatched"
              /\ forwarded' = Some(messages)
              /\ calls' = [calls EXCEPT !.complete = @ + 1]
              /\ UNCHANGED query
         ELSE /\ st' = "QueryExtracted"
              /\ query' = LastUserTurns(messages, CONTEXT_WINDOW[1])
              /\ UNCHANGED <<forwarded, calls>>
    /\ UNCHANGED <<mainVars, routeVars, failure, results, merged, messages>>

\* QueryExtracted: the embedding call, then one query per configured source
EmbedAndFanOut ==
    /\ st = "QueryExtracted"
    /\ \E ok \in BOOLEAN :
         IF ok
           THEN /\ st' = "Retrieving"
                /\ results' = [s \in Sources |-> Pending]
                /\ calls' = [calls EXCEPT !.embed = @ + 1, !.search = Sources]
                /\ UNCHANGED failure
           ELSE /\ st' = "Failed"
                /\ failure' = "embedding"
                /\ calls' = [calls EXCEPT !.embed = @ + 1]
                /\ UNCHANGED results
    /\ UNCHANGED <<mainVars, routeVars, query, merged, messages, forwarded>>

\* what a source may answer: a failure, a timeout, or at most cap chunks
SourceOutcomes(hits, cap) ==
    {[status |-> f, chunks |-> {}] : f \in {"failed", "timeout"}}
        \cup {[status |-> "ok", chunks |-> h] :
                h \in {x \in SUBSET hits : Cardinality(x) <= Min(cap, MaxHits)}}

\* search(collection, vector, limit): the store returns at most limit chunks
SourceCap(s) ==
    IF s = KeywordSource THEN MaxHits ELSE SERVER_INFO[1].qdrant_config[s].limit

\* one source answers
SourceReturns(hits) ==
    /\ st = "Retrieving"
    /\ \E s \in Sources :
         /\ results[s] = Pending
         /\ \E o \in SourceOutcomes(hits, SourceCap(s)) :
              results' = [results EXCEPT ![s] = o]
    /\ UNCHANGED <<mainVars, routeVars, st, failure, query, merged, messages, forwarded, calls>>

\* the chunks of source s that pass its score threshold
Surviving(s) ==
    IF results[s].status # "ok" THEN {}
    ELSE IF s = KeywordSource
      THEN {[text |-> c.text, score |-> c.score, source |-> s] : c \in results[s].chunks}
    ELSE {[text |-> c.text, score |-> c.score, source |-> s] :
            c \in {x \in results[s].chunks :
                     x.score >= SERVER_INFO[1].qdrant_config[s].score_threshold}}

\* c ranks before d: higher score first, then text, then source
RanksBefore(c, d) ==
    \/ c.score > d.score
    \/ c.score = d.score /\ c.text < d.text
    \/ c.score = d.score /\ c.text = d.text /\ c.source < d.source

\* Deduplicate that keeps every chunk
Deduplicate_KeepsAll(chunks) == chunks

\* one chunk per text: the best-ranked one
Deduplicate(chunks) ==
    {c \in chunks : \A d \in chunks : d.text = c.text /\ d # c => RanksBefore(c, d)}

RECURSIVE SortByScore(_)
SortByScore(chunks) ==
    IF chunks = {} THEN <<>>
    ELSE LET best == CHOOSE c \in chunks : \A d \in chunks \ {c} : RanksBefore(c, d)
         IN  <<best>> \o SortByScore(chunks \ {best})

\* the room the chat model's context leaves beside the conversation
PassageBudget ==
    LET room == SERVER_INFO[1].rag_config.chat_model.ctx_size - Len(messages)
    IN  IF room > 0 THEN room ELSE 0

\* union, deduplicate, sort by score, truncate to the passage budget
MergeChunks(chunks) ==
    LET ranked == SortByScore(Deduplicate(chunks))
    IN  SubSeq(ranked, 1, Min(Len(ranked), PassageBudget))

Merge == MergeChunks(UNION {Surviving(s) : s \in Sources})

AllSourcesFailed == \A s \in Sources : results[s].status # "ok"

\* every source has answered: Retrieving -> Retrieved, or Failed when all failed
JoinSources ==
    /\ st = "Retrieving"
    /\ \A s \in Sources : results[s] # Pending
    /\ IF AllSourcesFailed
         THEN st' = "Failed" /\ failure' = "retrieval" /\ UNCHANGED merged
         ELSE st' = "Retrieved" /\ merged' = Merge /\ UNCHANGED failure
    /\ UNCHANGED <<mainVars, routeVars, query, results, messages, forwarded, calls>>

\* Retrieved -> Merged, or straight to the inference call without any passage
CheckPassages ==
    /\ st = "Retrieved"
    /\ IF merged = <<>>
         THEN /\ st' = "Dispatched"
              /\ forwarded' = Some(messages)
              /\ calls' = [calls EXCEPT !.complete = @ + 1]
         ELSE /\ st' = "Merged"
              /\ UNCHANGED <<forwarded, calls>>
    /\ UNCHANGED <<mainVars, routeVars, failure, query, results, merged, messages>>

ContextBlock ==
    (IF GLOBAL_RAG_PROMPT # None THEN <<<<"prompt", 0>>>> ELSE <<>>)
        \o [i \in 1..Len(merged) |-> <<"ctx", merged[i].text>>]

HasRole(msgs, role) == \E i \in 1..Len(msgs) : msgs[i].role = role
LastIndexOf(msgs, role) ==
    CHOOSE i \in 1..Len(msgs) :
        msgs[i].role = role /\ \A j \in (i + 1)..Len(msgs) : msgs[j].role # role

InjectSystemMessage(msgs) ==
    IF msgs # <<>> /\ msgs[1].role = "system"
      THEN [msgs EXCEPT ![1].content = ContextBlock]
      ELSE <<[role |-> "system", content |-> ContextBlock]>> \o msgs

InjectLastUserMessage(msgs) ==
    IF HasRole(msgs, "user")
      THEN [msgs EXCEPT ![LastIndexOf(msgs, "user")].content = @ \o ContextBlock]
      ELSE msgs

\* Merged -> Injected
InjectContext ==
    /\ st = "Merged"
    /\ messages' =
          IF SERVER_INFO[1].rag_config.policy = "SystemMessage"
            THEN InjectSystemMessage(messages)
            ELSE InjectLastUserMessage(messages)
    /\ st' = "Injected"
    /\ UNCHANGED <<mainVars, routeVars, failure, query, results, merged, forwarded, calls>>

\* Injected -> Dispatched
DispatchInference ==
    /\ st = "Injected"
    /\ st' = "Dispatched"
    /\ forwarded' = Some(messages)
    /\ calls' = [calls EXCEPT !.complete = @ + 1]
    /\ UNCHANGED <<mainVars, routeVars, failure, query, results, merged, messages>>

\* Dispatched -> Done, or Failed when the inference call fails
CompleteInference ==
    /\ st = "Dispatched"
    /\ \E ok \in BOOLEAN :
         /\ st' = IF ok THEN "Done" ELSE "Failed"
         /\ failure' = IF ok THEN failure ELSE "inference"
    /\ UNCHANGED <<mainVars, routeVars, query, results, merged, messages, forwarded, calls>>

\* the response of the backend: of the orchestrator for a chat completion, of
\* another endpoint otherwise
BackendResponses ==
    IF IsChatCompletion(req[1])
      THEN {[status |-> IF st = "Done" THEN 200 ELSE 500, body |-> "backend"]}
      ELSE {[status |-> s, body |-> "backend"] : s \in {200, 404}}

\* main.rs 659-692: the backend's response is logged and returned
ReturnBackendResponse ==
    /\ rpc = "backend"
    /\ IsChatCompletion(req[1]) => st \in {"Done", "Failed"}
    /\ \E resp \in BackendResponses : response' = Some(resp)
    /\ rpc' = "done"
    /\ UNCHANGED <<mainVars, req, root_path, logged, handler, ragVars>>

\* main.rs 584-586: the service future of the request is over (its response was
\* written, or its task panicked); the connection serves the next request
FinishRequest ==
    /\ rpc \in {"done", "panic"}
    /\ req' = None
    /\ rpc' = "idle"
    /\ root_path' = <<>>
    /\ logged' = FALSE
    /\ handler' = "none"
    /\ response' = None
    /\ st' = "Idle"
    /\ failure' = "none"
    /\ query' = <<>>
    /\ results' = <<>>
    /\ merged' = <<>>
    /\ messages' = <<>>
    /\ forwarded' = None
    /\ calls' = NoCalls
    /\ UNCHANGED mainVars

Orchestrate(hits) ==
    \/ ReceiveChat
    \/ ExtractQuery
    \/ EmbedAndFanOut
    \/ SourceReturns(hits)
    \/ JoinSources
    \/ CheckPassages
    \/ InjectContext
    \/ DispatchInference
    \/ CompleteInference

\* main.rs 576-588: the service calls handle_request for the next request
AcceptRequest(requests) ==
    /\ pc = "serving"
    /\ rpc = "idle"
    /\ \E r \in requests, found \in BOOLEAN : HandleRequest(r, found)

Serve(requests, hits) ==
    \/ AcceptRequest(requests)
    \/ Orchestrate(hits)
    \/ ReturnBackendResponse
    \/ FinishRequest

Chunk(t, s) == [text |-> t, score |-> s]
SmokeHits == {Chunk(1, 2)}

SmokeRequests ==
    { Request("GET", <<"echo">>, None, None, None),
      Request("GET", <<"">>, None, None, None),
      Request("POST", ChatPath, Some(<<"Bearer", " ", "k">>), Some("12"), Some(<<UserMsg(1)>>)),
      Request("POST", ChatPath, Some(<<"Bearer", " ", "x">>), None, Some(<<UserMsg(1)>>)) }

Init == InitMain(ListArgs \cup QdrantArgs \cup OptionArgs, ApiKeys) /\ InitRequest

Next == Startup \/ Serve(SmokeRequests, SmokeHits)

\* every command line, a few requests
Spec == Init /\ [][Next]_vars

RouterRequests ==
    { Request(m, p, a, c, IF m = "POST" /\ p = ChatPath THEN Some(<<UserMsg(1)>>) ELSE None) :
        m \in {"GET", "POST"}, p \in Paths, a \in {None} \cup {Some(h) : h \in HeaderValues},
        c \in ContentLengths }

InitRouter == InitMain({DefaultCli}, ApiKeys) /\ InitRequest

NextRouter == Startup \/ Serve(RouterRequests, SmokeHits)

\* the default command line, every request
SpecRouter == InitRouter /\ [][NextRouter]_vars

\* Command lines that differ from the default in what retrieval reads.
RagArgs ==
    { [DefaultCli EXCEPT !.qdrant_collection_name = CollectionNames(q[1]),
                         !.qdrant_limit = q[2],
                         !.qdrant_score_threshold = q[3],
                         !.ctx_size = <<x, 384>>,
                         !.context_window = w,
                         !.kw_search_url = k] :
        q \in {<<1, <<2>>, <<2>>>>, <<2, <<2>>, <<2>>>>, <<2, <<1, 2>>, <<1, 2>>>>},
        x \in {4096, 3}, w \in 0..1, k \in {None, Some("http://kw")} }

RagHits == {Chunk(t, s) : t \in 1..2, s \in 1..2}

RagRequests == {Request("POST", ChatPath, None, None, Some(b)) : b \in Conversations}

InitRag == InitMain(RagArgs, {None}) /\ InitRequest

NextRag == Startup \/ Serve(RagRequests, RagHits)

\* the command lines of retrieval, every answer of the retrieval sources
SpecRag == InitRag /\ [][NextRag]_vars

(***************************************************************************)
(* The claims                                                              *)
(***************************************************************************)
NumCollections == Len(cli.qdrant_collection_name)
NumLimits == Len(cli.qdrant_limit)
NumThresholds == Len(cli.qdrant_score_threshold)

\* main has got past the checks of the model lists and of the store URL
ReachedCollectionCheck == ModelListsOk /\ is_valid_url(cli.qdrant_url)

PastCollectionCheck ==
    pc \in {"qdrant_config", "context_window", "policy", "kw_search", "core",
            "server_info", "bind", "serving"}

\* C1: startup gets past the collection validation if and only if the limit list
\* and the threshold list each have 1 or C entries; otherwise it ends with an
\* argument error (and never with anything else, such as a panic or a bound
\* listener).
C1_CountsValidatedExactly ==
    LET valid == NumLimits \in {1, NumCollections} /\ NumThresholds \in {1, NumCollections}
    IN  /\ PastCollectionCheck => valid
        /\ (ReachedCollectionCheck /\ ~valid) =>
              pc \in {"api_key", "args", "rag_prompt", "qdrant_url", "collections",
                      "ArgumentError"}

\* the request in hand carries a non-empty Authorization header
HasAuthorization == req # None /\ req[1].authorization # None /\ req[1].authorization[1] # <<>>

\* the token of the header differs from the configured key (a header that cannot
\* be read as text carries no token at all)
TokenMismatch ==
    /\ HasAuthorization
    /\ LLAMA_API_KEY # None
    /\ (~ToStrOk(req[1].authorization[1])
          \/ ApiKeyOf(req[1].authorization[1]) # LLAMA_API_KEY[1])

\* C2: with a key configured, a request whose non-empty Authorization header
\* carries another token is answered with unauthorized and nothing else happens:
\* no access log, no handler, no backend work.
C2_MismatchOnlyUnauthorized ==
    TokenMismatch =>
        /\ rpc = "done"
        /\ response = Some(Unauthorized)
        /\ ~logged
        /\ handler = "none"
        /\ st = "Idle"
        /\ calls = NoCalls

C2_Witness ==
    /\ TokenMismatch
    /\ ToStrOk(req[1].authorization[1])
    /\ req[1].path = ChatPath
    /\ response = Some(Unauthorized)

\* C3: without a configured key no request is answered with unauthorized, whatever
\* its Authorization header is, and every request whose handling completes was
\* routed.
C3_NoKeyNoUnauthorized ==
    (LLAMA_API_KEY = None /\ req # None) =>
        /\ response # Some(Unauthorized)
        /\ rpc = "done" => handler # "none"

\* the sources the command line configures: the collections and, with
\* --kw-search-url, the keyword service
ConfiguredSources ==
    (1..NumCollections) \cup (IF cli.kw_search_url # None THEN {KeywordSource} ELSE {})

Answered(s) == s \in DOMAIN results /\ results[s].status \in {"ok", "failed", "timeout"}
Succeeded(s) == s \in DOMAIN results /\ results[s].status = "ok"
FailedSource(s) == s \in DOMAIN results /\ results[s].status \in {"failed", "timeout"}

\* C4: a request fails because of retrieval only when every configured source
\* failed or timed out, and then the inference engine was not called; when a
\* configured source succeeded the request does not fail because of retrieval, and
\* no merged chunk comes from a source that failed.
C4_SourcesFailIndependently ==
    /\ failure = "retrieval" =>
          /\ \A s \in ConfiguredSources : FailedSource(s)
          /\ calls.complete = 0
          /\ forwarded = None
    /\ (\E s \in ConfiguredSources : Succeeded(s)) => failure # "retrieval"
    /\ \A i \in 1..Len(merged) : Succeeded(merged[i].source)

C4_Witness ==
    /\ st = "Done"
    /\ \E s \in ConfiguredSources \ {KeywordSource} : Succeeded(s)
    /\ \E s \in ConfiguredSources \ {KeywordSource} : FailedSource(s)
    /\ Answered(KeywordSource) /\ results[KeywordSource].status = "timeout"
    /\ merged # <<>>

\* C5: with a context window of 0 on the command line, a chat completion issues no
\* embedding call and no retrieval query, and the messages handed to the inference
\* engine are the messages of the request.
C5_ZeroWindowPassesThrough ==
    (cli.context_window = 0 /\ rpc = "backend") =>
        /\ calls.embed = 0
        /\ calls.search = {}
        /\ results = <<>>
        /\ st \in {"Idle", "Received", "Dispatched", "Done", "Failed"}
        /\ st \in {"Dispatched", "Done", "Failed"} =>
              forwarded = Some(req[1].body[1])

C5_Witness ==
    /\ cli.context_window = 0
    /\ st = "Done"
    /\ Len(req[1].body[1]) = 3
    /\ forwarded = Some(req[1].body[1])

\* the threshold the command line gives the i-th collection
ConfiguredThreshold(i) ==
    IF NumThresholds = 1 THEN cli.qdrant_score_threshold[1] ELSE cli.qdrant_score_threshold[i]

InMerged(t, sc, src) ==
    \E i \in 1..Len(merged) :
        merged[i].text = t /\ merged[i].score = sc /\ merged[i].source = src

\* C6: a chunk that a collection returned with a score below the threshold of that
\* collection is not in the merged result.
C6_BelowThresholdNeverMerged ==
    \A s \in DOMAIN results \ {KeywordSource} :
        \A c \in results[s].chunks :
            c.score < ConfiguredThreshold(s) => ~InMerged(c.text, c.score, s)

\* a below-threshold chunk of one collection, while the same text, returned by
\* another collection, is in the merged result
C6_Witness ==
    /\ st = "Merged"
    /\ \E s \in DOMAIN results \ {KeywordSource} :
         \E c \in results[s].chunks :
            /\ c.score < ConfiguredThreshold(s)
            /\ \E i \in 1..Len(merged) :
                  merged[i].text = c.text /\ merged[i].source \notin {s, KeywordSource}

\* the first segment of a path that is neither empty nor "."
FirstSegment(path) ==
    LET named == {i \in 1..Len(path) : path[i] \notin {"", "."}}
    IN  IF named = {} THEN ""
        ELSE path[CHOOSE i \in named : \A j \in named : i <= j]

\* C7: a request that gets past the authorization check and the request log is
\* routed by its first path segment alone: v1 to the backend, echo to the direct
\* answer (the backend is not called), anything else ("/" included) to the static
\* assets; the response is the one of that handler.
C7_RoutedByFirstSegment ==
    (req # None /\ logged) =>
        LET seg == FirstSegment(req[1].path)
        IN  /\ handler = (IF seg = "v1" THEN "backend"
                          ELSE IF seg = "echo" THEN "echo" ELSE "static")
            /\ handler = "echo" =>
                  response = Some([status |-> 200, body |-> "echo test"]) /\ st = "Idle"
            /\ handler = "static" =>
                  /\ response \in {Some(StaticResponse(f)) : f \in BOOLEAN}
                  /\ st = "Idle"
            /\ handler = "backend" =>
                  response = None \/ response[1].body = "backend"

C7_Witness ==
    /\ req # None
    /\ logged
    /\ req[1].path = <<".", "echo">>
    /\ req[1].method = "POST"
    /\ handler = "echo"
    /\ rpc = "done"

\* C8: the policy in ServerInfo is LastUserMessage when SystemMessage is
\* configured and the chat template has no system prompt, and the configured
\* policy otherwise; it is that policy in every state of the process, whatever
\* request is being served.
C8_PolicyDowngradedAtStartup ==
    SERVER_INFO # None =>
        SERVER_INFO[1].rag_config.policy =
            (IF cli.policy = "SystemMessage" /\ cli.prompt_template[1] = "embedding"
               THEN "LastUserMessage" ELSE cli.policy)

C8_Witness ==
    /\ cli.policy = "SystemMessage"
    /\ ~has_system_prompt(cli.prompt_template[1])
    /\ SERVER_INFO # None
    /\ SERVER_INFO[1].rag_config.policy = "LastUserMessage"
    /\ st = "Injected"

\* one of the lists the claim names has a length other than 2
PairMissing ==
    \/ Len(cli.model_name) # 2
    \/ Len(cli.prompt_template) # 2
    \/ Len(cli.ctx_size) # 2
    \/ Len(cli.batch_size) # 2

StoppedAtArguments == pc \in {"api_key", "args", "ArgumentError"}

\* C9 as stated: when a pair is missing startup ends with an argument error, no
\* configuration state at all is published and the listener is never bound.
C9_NothingPublished ==
    PairMissing =>
        /\ StoppedAtArguments
        /\ LLAMA_API_KEY = None
        /\ GLOBAL_RAG_PROMPT = None
        /\ CONTEXT_WINDOW = None
        /\ KW_SEARCH_CONFIG = None
        /\ SERVER_INFO = None

\* C9: when a pair is missing startup ends with an argument error, the listener is
\* never bound and no configuration state is published except the API key, which
\* is taken from the environment before the command line is looked at.
C9_OnlyApiKeyPublished ==
    PairMissing =>
        /\ StoppedAtArguments
        /\ LLAMA_API_KEY \in {None, env.API_KEY}
        /\ GLOBAL_RAG_PROMPT = None
        /\ CONTEXT_WINDOW = None
        /\ KW_SEARCH_CONFIG = None
        /\ SERVER_INFO = None

C9_Witness ==
    /\ Len(cli.batch_size) = 3
    /\ Len(cli.model_name) = 2
    /\ pc = "ArgumentError"
    /\ LLAMA_API_KEY # None

\* what the cells hold once startup is through
ConfigurationInitialised ==
    /\ LLAMA_API_KEY = env.API_KEY
    /\ GLOBAL_RAG_PROMPT = cli.rag_prompt
    /\ CONTEXT_WINDOW = Some(cli.context_window)
    /\ KW_SEARCH_CONFIG =
          (IF cli.kw_search_url = None THEN None ELSE Some([url |-> cli.kw_search_url[1]]))
    /\ SERVER_INFO # None
    /\ SERVER_INFO[1].qdrant_config = qdrant_config_vec

\* C10: a cell that holds a value keeps it (each is written at most once), no step
\* taken once the listener is bound changes a cell, and whenever the server is
\* serving every cell holds what the environment and the command line configure.
C10_ConfigurationWrittenOnceBeforeBind ==
    /\ [](pc = "serving" => ConfigurationInitialised)
    /\ [][ /\ LLAMA_API_KEY # None => LLAMA_API_KEY' = LLAMA_API_KEY
           /\ GLOBAL_RAG_PROMPT # None => GLOBAL_RAG_PROMPT' = GLOBAL_RAG_PROMPT
           /\ CONTEXT_WINDOW # None => CONTEXT_WINDOW' = CONTEXT_WINDOW
           /\ KW_SEARCH_CONFIG # None => KW_SEARCH_CONFIG' = KW_SEARCH_CONFIG
           /\ SERVER_INFO # None => SERVER_INFO' = SERVER_INFO
           /\ pc = "serving" => (pc' = "serving" /\ cells' = cells) ]_vars

C10_Witness ==
    /\ pc = "serving"
    /\ st = "Done"
    /\ LLAMA_API_KEY # None
    /\ GLOBAL_RAG_PROMPT # None
    /\ KW_SEARCH_CONFIG # None
    /\ CONTEXT_WINDOW # None
    /\ SERVER_INFO # None

\* main has built the per-collection settings
SettingsBuilt ==
    pc \in {"context_window", "policy", "kw_search", "core", "server_info", "bind", "serving"}

\* C11: the settings built at startup are one per collection name; the i-th one
\* has the i-th name, the i-th limit when C limits were supplied and the single
\* limit when one was supplied, and likewise and independently for the threshold;
\* all have the store URL of the command line; the settings published in
\* ServerInfo are these.
C11_SettingsBroadcastOrPairwise ==
    SettingsBuilt =>
        /\ Len(qdrant_config_vec) = NumCollections
        /\ \A i \in 1..Len(qdrant_config_vec) :
              /\ qdrant_config_vec[i].collection_name = cli.qdrant_collection_name[i]
              /\ qdrant_config_vec[i].url = cli.qdrant_url
              /\ NumLimits = NumCollections =>
                    qdrant_config_vec[i].limit = cli.qdrant_limit[i]
              /\ NumLimits = 1 => qdrant_config_vec[i].limit = cli.qdrant_limit[1]
              /\ NumThresholds = NumCollections =>
                    qdrant_config_vec[i].score_threshold = cli.qdrant_score_threshold[i]
              /\ NumThresholds = 1 =>
                    qdrant_config_vec[i].score_threshold = cli.qdrant_score_threshold[1]
        /\ SERVER_INFO # None => SERVER_INFO[1].qdrant_config = qdrant_config_vec

\* three collections with a limit each and one threshold for all
C11_Witness ==
    /\ pc = "serving"
    /\ NumCollections = 3
    /\ NumLimits = 3
    /\ NumThresholds = 1
    /\ SERVER_INFO # None
    /\ SERVER_INFO[1].qdrant_config[3].limit = cli.qdrant_limit[3]
    /\ SERVER_INFO[1].qdrant_config[3].limit # SERVER_INFO[1].qdrant_config[1].limit
    /\ SERVER_INFO[1].qdrant_config[3].score_threshold = cli.qdrant_score_threshold[1]

\* the request in hand got past the authorization block of handle_request
PassedAuthorization == req # None /\ response # Some(Unauthorized)

\* C12: with a key configured, a request with a non-empty Authorization header
\* gets past the authorization check only if the header is "Bearer", one space and
\* the configured key, and nothing more.
C12_OnlyBearerKeyPasses ==
    (LLAMA_API_KEY # None /\ HasAuthorization /\ PassedAuthorization) =>
        req[1].authorization[1] = <<"Bearer", " ">> \o LLAMA_API_KEY[1]

\* source s returned text t with a score that passes its threshold (the keyword
\* service has no threshold)
ReturnedAboveThresholdBy(s, t) ==
    \E c \in results[s].chunks :
        /\ c.text = t
        /\ s # KeywordSource => c.score >= ConfiguredThreshold(s)

ReturnedAboveThreshold(t) == \E s \in DOMAIN results : ReturnedAboveThresholdBy(s, t)

ReturnedTexts == UNION {{c.text : c \in results[s].chunks} : s \in DOMAIN results}

\* the number of entries of the merged result with text t
Occurrences(t) == Cardinality({i \in 1..Len(merged) : merged[i].text = t})

MergedChunks == {merged[i] : i \in 1..Len(merged)}

\* the merge has run and the conversation is still the one it measured
JustMerged == st \in {"Retrieved", "Merged"}

\* C13 as stated: the merged result holds every text at most once, and exactly
\* once when a source returned it above threshold; merging the merged result again
\* gives the merged result.
C13_EachTextExactlyOnce ==
    JustMerged =>
        /\ \A t \in ReturnedTexts :
              /\ Occurrences(t) <= 1
              /\ ReturnedAboveThreshold(t) => Occurrences(t) = 1
        /\ MergeChunks(MergedChunks) = merged

\* the highest score with which text t was returned above threshold
BestScore(t) ==
    CHOOSE b \in 0..2 :
        /\ \E s \in DOMAIN results : \E c \in results[s].chunks :
              c.text = t /\ c.score = b /\ (s # KeywordSource => b >= ConfiguredThreshold(s))
        /\ \A s \in DOMAIN results : \A c \in results[s].chunks :
              (c.text = t /\ (s # KeywordSource => c.score >= ConfiguredThreshold(s)))
                  => c.score <= b

\* C13: the merged result holds every text at most once, and only texts that a
\* source returned above threshold; it holds such a text exactly once unless the
\* passage budget is used up by texts that score at least as high; merging the
\* merged result again gives the merged result.
C13_EachTextOnceWithinBudget ==
    /\ \A i, j \in 1..Len(merged) : merged[i].text = merged[j].text => i = j
    /\ \A i \in 1..Len(merged) :
          ReturnedAboveThresholdBy(merged[i].source, merged[i].text)
    /\ JustMerged =>
          /\ Len(merged) =
                Min(Cardinality({t \in ReturnedTexts : ReturnedAboveThreshold(t)}),
                    PassageBudget)
          /\ \A t \in ReturnedTexts :
                (ReturnedAboveThreshold(t) /\ Occurrences(t) = 0) =>
                    \A i \in 1..Len(merged) : merged[i].score >= BestScore(t)
          /\ MergeChunks(MergedChunks) = merged

\* two collections return the same text above threshold, and another text is
\* merged as well
C13_Witness ==
    /\ st = "Merged"
    /\ Len(merged) = 2
    /\ \E t \in ReturnedTexts :
          /\ ReturnedAboveThresholdBy(1, t)
          /\ 2 \in DOMAIN results
          /\ ReturnedAboveThresholdBy(2, t)
          /\ Occurrences(t) = 1

\* request r with the Authorization header that carries the configured key
WithConfiguredKey(r) ==
    [r EXCEPT !.authorization = Some(<<"Bearer", " ">> \o LLAMA_API_KEY[1])]

\* the handler that the first path segment selects
HandlerOfPath(path) ==
    IF FirstSegment(path) = "v1" THEN "backend"
    ELSE IF FirstSegment(path) = "echo" THEN "echo" ELSE "static"

\* C14: with a key configured, a request without an Authorization header, or with
\* an empty one, is not answered with unauthorized; it goes where the same request
\* with the configured key goes: through the request log to the handler of its
\* first path segment.
C14_NoHeaderSkipsKeyCheck ==
    (LLAMA_API_KEY # None /\ req # None /\ ~HasAuthorization) =>
        /\ response # Some(Unauthorized)
        /\ AuthorizationPassed(WithConfiguredKey(req[1]))
        /\ LoggingPanics(WithConfiguredKey(req[1])) <=> rpc = "panic"
        /\ rpc # "panic" => logged /\ handler = HandlerOfPath(req[1].path)

\* a chat request with an empty Authorization header reaches the backend of a
\* server that has a key
C14_Witness ==
    /\ LLAMA_API_KEY = Some(<<"k">>)
    /\ req # None
    /\ req[1].authorization = Some(<<>>)
    /\ req[1].path = ChatPath
    /\ rpc = "backend"
    /\ handler = "backend"

\* main stopped inside the loop that builds the settings
BuildAborted == pc = "panic" /\ CONTEXT_WINDOW = None

\* C15: once the counts are validated, building the settings never aborts with an
\* out-of-range access, gives one setting per collection name in the order of the
\* names, and every supplied limit and every supplied threshold is the limit or
\* the threshold of some setting.
C15_BuildInRangeAndComplete ==
    /\ ~BuildAborted
    /\ SettingsBuilt =>
          /\ Len(qdrant_config_vec) = NumCollections
          /\ \A i \in 1..Len(qdrant_config_vec) :
                qdrant_config_vec[i].collection_name = cli.qdrant_collection_name[i]
          /\ \A l \in 1..NumLimits :
                \E i \in 1..Len(qdrant_config_vec) :
                    qdrant_config_vec[i].limit = cli.qdrant_limit[l]
          /\ \A t \in 1..NumThresholds :
                \E i \in 1..Len(qdrant_config_vec) :
                    qdrant_config_vec[i].score_threshold = cli.qdrant_score_threshold[t]

\* C16: handle_request never aborts: whatever the request is, its handling does
\* not end in a panic, and when it is over there is a response.
C16_HandlerAlwaysResponds ==
    /\ rpc # "panic"
    /\ rpc = "done" => response # None
====
